---- MODULE Spec2Model ----
(***************************************************************************)
(* Stock News Sentiment Analyzer (src/app): the Streamlit script main(),   *)
(* the session-state result cache of perform_stock_news_analysis, the      *)
(* article loop of analyze_stock_news_sentiment, process_article,          *)
(* get_stock_news, extract_article_text and the sentiment helpers.         *)
(*                                                                         *)
(* Texts are sequences of words ("" is <<>>, truthiness is Len > 0).       *)
(* Optional values are sequences of length 0 or 1 (None is <<>>); a tuple  *)
(* returned by a function is a TLA+ tuple, so Python's "if results:" is    *)
(* Len(results) > 0.  Polarity and subjectivity are integers in units of   *)
(* 1/Scale, so that the means taken by the code are exact.                 *)
(***************************************************************************)
EXTENDS Integers, Sequences, FiniteSets, TLC

\* ------------------------------------------------------------------ bounds
\* Largest number of items the news provider answers with.
MaxNews == 2
\* Largest value of the "number of articles" slider explored (the widget
\* allows up to 10, config.py:49).
MaxSlider == 2
MaxWords == 2
MaxOver == 3

\* --------------------------------------------------------------- constants
\* Slider minimum and default of num_articles.
MinSlider == 1
DefaultNumArticles == 3
\* One unit of polarity/subjectivity is 1/Scale; 1.0 is Scale.
Scale == 1200
\* Slice length of the article preview.
PreviewLen == 500

None == <<>>
Some(x) == <<x>>

\* ------------------------------------------------------------------- texts
EmptyText == <<>>

\* " ".join(texts)
RECURSIVE Join(_)
Join(texts) ==
    IF texts = <<>> THEN EmptyText ELSE Head(texts) \o Join(Tail(texts))

\* data.py:80, the text stored when no article text is available
FailureSentinel == <<"Could", "not", "extract", "full", "article", "text">>

\* scraper.py:52, the boilerplate fragment removed from extracted text
Boilerplate == "Oops"

\* str.upper() of the ticker box (main.py:33-38)
Upper(s) ==
    CASE s = "aapl" -> "AAPL"
      [] s = "msft" -> "MSFT"
      [] OTHER -> s

\* ------------------------------------------------- sentiment (sentiment.py)
\* The lexicon model behind TextBlob(text).sentiment: word scores are summed
\* and clipped to the range of the measure.
WordPolarity(w) ==
    CASE w = "great" -> 360
      [] w = "full" -> 360
      [] w = "fine" -> 120
      [] w = "bad" -> -360
      [] w = "weak" -> -120
      [] OTHER -> 0

WordSubjectivity(w) ==
    CASE w = "great" -> 600
      [] w = "full" -> 600
      [] w = "fine" -> 360
      [] w = "bad" -> 600
      [] w = "weak" -> 360
      [] OTHER -> 0

RECURSIVE SumPolarity(_)
SumPolarity(text) ==
    IF text = <<>> THEN 0 ELSE WordPolarity(Head(text)) + SumPolarity(Tail(text))

RECURSIVE SumSubjectivity(_)
SumSubjectivity(text) ==
    IF text = <<>> THEN 0
    ELSE WordSubjectivity(Head(text)) + SumSubjectivity(Tail(text))

Clip(x, lo, hi) == IF x < lo THEN lo ELSE IF x > hi THEN hi ELSE x

TextBlobPolarity(text) == Clip(SumPolarity(text), -Scale, Scale)
TextBlobSubjectivity(text) == Clip(SumSubjectivity(text), 0, Scale)

\* The 0.1 of the label thresholds, in units of 1/Scale.
Threshold == Scale \div 10

\* Thresholds that take 0.1 and -0.1 in.
SentimentLabel_NonStrict(polarity) ==
    IF polarity >= Threshold THEN "Positive"
    ELSE IF polarity <= -Threshold THEN "Negative"
    ELSE "Neutral"

SentimentLabel(polarity) ==
    IF polarity > Threshold THEN "Positive"
    ELSE IF polarity < -Threshold THEN "Negative"
    ELSE "Neutral"

SentimentEmoji(polarity) ==
    IF polarity > Threshold THEN "smile"
    ELSE IF polarity < -Threshold THEN "angry"
    ELSE "neutral"

\* analyze_sentiment(text) -> (polarity, subjectivity, sentiment_label, emoji)
analyze_sentiment(text) ==
    LET polarity == TextBlobPolarity(text)
        subjectivity == TextBlobSubjectivity(text)
    IN  <<polarity, subjectivity, SentimentLabel(polarity), SentimentEmoji(polarity)>>

\* calculate_combined_sentiment(article_texts) -> dict or None
calculate_combined_sentiment(article_texts) ==
    LET combined_text == Join(article_texts)
    IN  IF combined_text = EmptyText THEN None
        ELSE LET s == analyze_sentiment(combined_text)
             IN  Some([polarity |-> s[1], subjectivity |-> s[2],
                       sentiment |-> s[3], emoji |-> s[4]])

\* ------------------------------------------------- scraper (scraper.py)
\* requests.get answers with a response (status, body), or raises on a
\* timeout or a connection failure.  A body is a parsed page: a sequence of
\* blocks (tag, text); "malformed" marks a body on which the parser raises.
HTTP_OK == 200

Response(status, malformed, body) ==
    [kind |-> "response", status |-> status, malformed |-> malformed, body |-> body]
Failure(kind) ==
    [kind |-> kind, status |-> 0, malformed |-> FALSE, body |-> <<>>]

\* soup(['script', 'style', 'header', 'footer', 'nav']) are extracted with
\* everything inside them; soup.find_all('p') finds the paragraphs left.  A
\* block names its tag and the element that encloses it ("" at top level).
DroppedTags == {"script", "style", "header", "footer", "nav"}
DroppedTagsArchive == DroppedTags \cup {"aside"}

RECURSIVE ParagraphTexts(_, _)
ParagraphTexts(body, dropped) ==
    IF body = <<>> THEN <<>>
    ELSE IF Head(body).tag = "p" /\ Head(body).inside \notin dropped
         THEN <<Head(body).text>> \o ParagraphTexts(Tail(body), dropped)
         ELSE ParagraphTexts(Tail(body), dropped)

\* article_text.replace(<boilerplate>, "")
RemoveBoilerplate(text) == SelectSeq(text, LAMBDA w : w # Boilerplate)

\* The body of the try block: the value it returns, or the exception raised.
ExtractTry(fetch) ==
    IF fetch.kind # "response" THEN [exc |-> fetch.kind, val |-> EmptyText]
    ELSE IF fetch.status # HTTP_OK THEN [exc |-> "", val |-> EmptyText]
    ELSE IF fetch.malformed THEN [exc |-> "parse", val |-> EmptyText]
    ELSE [exc |-> "",
          val |-> RemoveBoilerplate(Join(ParagraphTexts(fetch.body, DroppedTags)))]

\* A handler that warns and then lets the exception go on to the caller.
extract_article_text_Reraises(fetch) ==
    LET t == ExtractTry(fetch)
    IN  IF t.exc # ""
        THEN [raised |-> TRUE, ret |-> EmptyText, warning |-> TRUE]
        ELSE [raised |-> FALSE, ret |-> t.val, warning |-> FALSE]

\* A handler that lets parse errors through (only request errors caught).
extract_article_text_RequestErrorsOnly(fetch) ==
    LET t == ExtractTry(fetch)
    IN  IF t.exc \in {"timeout", "connection"}
        THEN [raised |-> FALSE, ret |-> EmptyText, warning |-> TRUE]
        ELSE [raised |-> t.exc # "", ret |-> t.val, warning |-> FALSE]

\* extract_article_text(url): "except Exception" turns every exception of
\* the try block into a warning and the empty string.
extract_article_text(fetch) ==
    LET t == ExtractTry(fetch)
    IN  IF t.exc # ""
        THEN [raised |-> FALSE, ret |-> EmptyText, warning |-> TRUE]
        ELSE [raised |-> FALSE, ret |-> t.val, warning |-> FALSE]

\* archive/stock_sentiment_app copy.py: raise_for_status() makes a bad status
\* an exception; both handlers warn and return "".
ExtractTryArchive(fetch) ==
    IF fetch.kind # "response" THEN [exc |-> fetch.kind, val |-> EmptyText]
    ELSE IF fetch.status # HTTP_OK THEN [exc |-> "status", val |-> EmptyText]
    ELSE IF fetch.malformed THEN [exc |-> "parse", val |-> EmptyText]
    ELSE [exc |-> "",
          val |-> RemoveBoilerplate(Join(ParagraphTexts(fetch.body, DroppedTagsArchive)))]

extract_article_text_archive(fetch) ==
    LET t == ExtractTryArchive(fetch)
    IN  IF t.exc # ""
        THEN [raised |-> FALSE, ret |-> EmptyText, warning |-> TRUE]
        ELSE [raised |-> FALSE, ret |-> t.val, warning |-> FALSE]

\* ------------------------------------------------------- news (data.py)
\* news[:num_articles]
Prefix(s, n) == SubSeq(s, 1, IF Len(s) < n THEN Len(s) ELSE n)

\* The provider answers yf.Search(...).news with a list, or raises.
get_stock_news_NoSlice(provider, num_articles) ==
    IF provider.error
    THEN [raised |-> FALSE, ret |-> <<>>, error |-> TRUE]
    ELSE [raised |-> FALSE, ret |-> provider.news, error |-> FALSE]

get_stock_news_NoHandler(provider, num_articles) ==
    IF provider.error
    THEN [raised |-> TRUE, ret |-> <<>>, error |-> FALSE]
    ELSE [raised |-> FALSE, ret |-> Prefix(provider.news, num_articles), error |-> FALSE]

\* get_stock_news(ticker_symbol, num_articles)
get_stock_news(provider, num_articles) ==
    IF provider.error
    THEN [raised |-> FALSE, ret |-> <<>>, error |-> TRUE]
    ELSE IF Len(provider.news) > 0
         THEN [raised |-> FALSE, ret |-> Prefix(provider.news, num_articles),
               error |-> FALSE]
         ELSE [raised |-> FALSE, ret |-> <<>>, error |-> FALSE]

\* ---------------------------------------------- process_article (data.py)
\* article_full_text[:500] + "..." if len(article_full_text) > 500
Preview(text) ==
    IF Len(text) > PreviewLen
    THEN SubSeq(text, 1, PreviewLen) \o <<".", ".", ".">>
    ELSE text

\* The fallback taken when no article text is available scores nothing.
FullTextSentiment_ZeroFallback(article_full_text, headline) ==
    IF Len(article_full_text) > 0 THEN analyze_sentiment(article_full_text)
    ELSE <<0, 0, "Neutral", "neutral">>

\* data.py:74-79
FullTextSentiment(article_full_text, headline) ==
    IF Len(article_full_text) > 0 THEN analyze_sentiment(article_full_text)
    ELSE headline

\* An extractor called for every headline, linked or not.
ExtractorCalled_Always(article_url) == TRUE

\* data.py:67, "if article_url:"
ExtractorCalled(article_url) == article_url # ""

\* A delay taken only when the extraction yielded text.
Slept_OnlyOnSuccess(called, ext) == called /\ ~ext.raised /\ Len(ext.ret) > 0

\* data.py:68-71, time.sleep(0.5) follows the extractor call when it returns
Slept(called, ext) == called /\ ~ext.raised

\* process_article(article, index, total_articles, status_text); fetch is
\* what requests.get does for the article's link during this call.
process_article(article, fetch) ==
    LET article_url == article.link
        title == article.title
        summary == article.summary
        headline_text == Join(<<title, summary>>)
        headline == analyze_sentiment(headline_text)
        called == ExtractorCalled(article_url)
        ext == IF called THEN extract_article_text(fetch)
               ELSE [raised |-> FALSE, ret |-> EmptyText, warning |-> FALSE]
        full == FullTextSentiment(ext.ret, headline)
        article_full_text == IF Len(ext.ret) > 0 THEN ext.ret ELSE FailureSentinel
    IN  [raised |-> ext.raised,
         called |-> called,
         slept |-> Slept(called, ext),
         warning |-> ext.warning,
         extracted |-> ext.ret,
         data |-> [title |-> title,
                   publisher |-> article.publisher,
                   link |-> article_url,
                   headline_polarity |-> headline[1],
                   headline_subjectivity |-> headline[2],
                   headline_sentiment |-> headline[3],
                   headline_emoji |-> headline[4],
                   full_text_polarity |-> full[1],
                   full_text_subjectivity |-> full[2],
                   full_text_sentiment |-> full[3],
                   full_text_emoji |-> full[4],
                   article_text |-> Preview(article_full_text),
                   published |-> article.providerPublishTime,
                   raw_text |-> article_full_text]]

\* --------------------------------- analyze_stock_news_sentiment (data.py)
RECURSIVE SumSeq(_)
SumSeq(xs) == IF xs = <<>> THEN 0 ELSE Head(xs) + SumSeq(Tail(xs))

\* A mean that looks at the first record only.
Mean_First(xs) == Head(xs)

\* Series.mean()
Mean(xs) == SumSeq(xs) \div Len(xs)

\* del result['raw_text']
WithoutRawText(r) ==
    [title |-> r.title, publisher |-> r.publisher, link |-> r.link,
     headline_polarity |-> r.headline_polarity,
     headline_subjectivity |-> r.headline_subjectivity,
     headline_sentiment |-> r.headline_sentiment,
     headline_emoji |-> r.headline_emoji,
     full_text_polarity |-> r.full_text_polarity,
     full_text_subjectivity |-> r.full_text_subjectivity,
     full_text_sentiment |-> r.full_text_sentiment,
     full_text_emoji |-> r.full_text_emoji,
     article_text |-> r.article_text, published |-> r.published]

\* A "no headlines" result that is not the neutral one.
NoHeadlinesResult_Stale == <<0, 0, "Positive", <<>>, None>>

\* data.py:115-116, the result when get_stock_news returned nothing
NoHeadlinesResult == <<0, 0, "Neutral", <<>>, None>>

\* An overall label whose thresholds take 0.1 and -0.1 in.
OverallLabel_NonStrict(avg_polarity) ==
    IF avg_polarity >= Threshold THEN "Positive"
    ELSE IF avg_polarity <= -Threshold THEN "Negative"
    ELSE "Neutral"

\* data.py:153-158
OverallLabel(avg_polarity) ==
    IF avg_polarity > Threshold THEN "Positive"
    ELSE IF avg_polarity < -Threshold THEN "Negative"
    ELSE "Neutral"

\* data.py:137-167, what the function returns once the loop is over:
\* (avg_polarity, avg_subjectivity, overall_sentiment, news_df, combined_sentiment)
AnalysisResult(res, texts) ==
    LET news_df == [k \in 1..Len(res) |-> WithoutRawText(res[k])]
        avg_polarity ==
            IF Len(news_df) > 0
            THEN Mean([k \in 1..Len(news_df) |-> news_df[k].full_text_polarity])
            ELSE 0
        avg_subjectivity ==
            IF Len(news_df) > 0
            THEN Mean([k \in 1..Len(news_df) |-> news_df[k].full_text_subjectivity])
            ELSE 0
        overall_sentiment ==
            IF Len(news_df) > 0 THEN OverallLabel(avg_polarity) ELSE "Neutral"
    IN  <<avg_polarity, avg_subjectivity, overall_sentiment, news_df,
          calculate_combined_sentiment(texts)>>

\* ---------------------------------- perform_stock_news_analysis (data.py)
\* A cache check that also wants the saved table to fit the article count.
CacheHit_CountSensitive(s, t) ==
    s.ticker = t /\ s.analysis_performed /\ Len(s.news_df) <= s.num_articles

\* A cache check that never finds the saved results.
CacheHit_Never(s, t) == FALSE

\* data.py:185
CacheHit(s, t) == s.ticker = t /\ s.analysis_performed

\* data.py:187-193
SavedResults(s) ==
    <<s.avg_polarity, s.avg_subjectivity, s.overall_sentiment, s.news_df,
      s.combined_sentiment>>

\* A save that keeps an empty result out of the session.
SaveResults_SkipsEmpty(s, t, res) ==
    IF Len(res[4]) = 0 THEN s
    ELSE [s EXCEPT !.ticker = t, !.avg_polarity = res[1], !.avg_subjectivity = res[2],
                   !.overall_sentiment = res[3], !.news_df = res[4],
                   !.combined_sentiment = res[5], !.analysis_performed = TRUE]

\* data.py:204-211
SaveResults(s, t, res) ==
    [s EXCEPT !.ticker = t, !.avg_polarity = res[1], !.avg_subjectivity = res[2],
              !.overall_sentiment = res[3], !.news_df = res[4],
              !.combined_sentiment = res[5], !.analysis_performed = TRUE]

\* The session fields perform_stock_news_analysis writes at data.py:205-211,
\* the ticker apart
ResultFields(s) ==
    <<s.avg_polarity, s.avg_subjectivity, s.overall_sentiment, s.news_df,
      s.combined_sentiment, s.analysis_performed>>

\* data.py:214-218, None when the analysis found no news
PerformReturn(res) == IF Len(res[4]) = 0 THEN None ELSE res

\* --------------------------------------------------- session (config.py)
\* initialize_session_state() on an empty session
InitialSessionState ==
    [ticker |-> "", avg_polarity |-> 0, avg_subjectivity |-> 0,
     overall_sentiment |-> "Neutral", news_df |-> <<>>,
     combined_sentiment |-> None, analysis_performed |-> FALSE,
     num_articles |-> DefaultNumArticles]

\* A Clear that leaves the "performed" flag set.
ClearSavedResults_KeepFlag(s) ==
    [s EXCEPT !.ticker = "", !.news_df = <<>>, !.combined_sentiment = None]

\* main.py:51-56, the Clear Saved Results button
ClearSavedResults(s) ==
    [s EXCEPT !.analysis_performed = FALSE, !.ticker = "", !.news_df = <<>>,
              !.combined_sentiment = None]

\* ------------------------------------------------------------ the inputs
\* What the user may have typed into the ticker box when the script runs.
TickerInputs == {"", "aapl", "AAPL", "MSFT"}

\* Headlines the provider serves: one with a link, one without.
LinkedHeadline ==
    [title |-> <<"bad", "quarter">>, summary |-> EmptyText, link |-> "u1",
     publisher |-> "Wire", providerPublishTime |-> 1]
BareHeadline ==
    [title |-> <<"fine">>, summary |-> <<"outlook">>, link |-> "",
     publisher |-> "Unknown", providerPublishTime |-> 2]
Headlines == {LinkedHeadline, BareHeadline}

RECURSIVE SeqsUpTo(_, _)
SeqsUpTo(S, n) ==
    IF n = 0 THEN {<<>>}
    ELSE LET shorter == SeqsUpTo(S, n - 1)
         IN  shorter \cup {Append(q, x) : q \in {r \in shorter : Len(r) = n - 1}, x \in S}

\* The values the slider is moved to; it starts at its default.
SliderValues == (MinSlider..MaxSlider) \cup {DefaultNumArticles}

ProviderAnswers ==
    {[error |-> TRUE, news |-> <<>>]}
    \cup {[error |-> FALSE, news |-> l] : l \in SeqsUpTo(Headlines, MaxNews)}

Block(tag, inside, text) == [tag |-> tag, inside |-> inside, text |-> text]
PageGreat ==
    <<Block("p", "nav", <<"bad">>), Block("p", "", <<"great">>),
      Block("p", "", <<"growth">>)>>
PageWeak == <<Block("p", "", <<"Oops", "weak", "sales">>)>>
PageNoParagraph == <<Block("div", "", <<"great">>)>>
PageBoilerplate == <<Block("p", "", <<"Oops">>)>>

\* What requests.get may do for an article link.
FetchOutcomes ==
    {Failure("timeout"), Failure("connection"),
     Response(500, FALSE, PageGreat), Response(HTTP_OK, TRUE, <<>>),
     Response(HTTP_OK, FALSE, PageGreat), Response(HTTP_OK, FALSE, PageWeak),
     Response(HTTP_OK, FALSE, PageNoParagraph),
     Response(HTTP_OK, FALSE, PageBoilerplate)}

\* --------------------------------------------------------------- the state
VARIABLES
    ss,                 \* st.session_state
    pc,                 \* where the running script is: "idle" between runs
    news_articles,      \* locals of analyze_stock_news_sentiment
    i,
    results,
    all_article_texts,
    run,                \* what the current (or last) script run did
    prev,               \* the last perform call since the last Clear, if any
    computed_for,       \* ticker whose analysis produced the saved results
    cleared             \* after Clear and until the next analysis request, or
                        \* the end of the analysis when it is for that ticker:
                        \* the ticker whose results the Clear removed

vars == <<ss, pc, news_articles, i, results, all_article_texts, run, prev,
          computed_for, cleared>>

locals == <<news_articles, i, results, all_article_texts>>

NewRun(kind, t) ==
    [kind |-> kind, ticker |-> t, returned |-> FALSE, ret |-> None,
     hit |-> FALSE, after |-> None, before |-> None, fresh |-> FALSE,
     queries |-> 0,
     count |-> 0, provider |-> None, news |-> <<>>, calls |-> 0,
     fetches |-> 0, sleeps |-> 0, extracted |-> <<>>, last |-> None, progress |-> <<>>,
     notices |-> {}, analysis |-> None, shown |-> None, crashed |-> FALSE,
     stopped_after |-> None]

Init ==
    /\ ss = InitialSessionState
    /\ pc = "idle"
    /\ news_articles = <<>>
    /\ i = 0
    /\ results = <<>>
    /\ all_article_texts = <<>>
    /\ run = NewRun("none", "")
    /\ prev = None
    /\ computed_for = ""
    /\ cleared = None

\* main.py:19-42: the sidebar slider writes num_articles, the ticker box is
\* read and upper-cased, and a non-empty ticker is written to the session.
AfterInputs(s, t, n) ==
    LET s1 == [s EXCEPT !.num_articles = n]
    IN  IF t # "" THEN [s1 EXCEPT !.ticker = t] ELSE s1

\* main.py:66-73, the saved results shown by a run without a button press
SavedDisplay(s) ==
    IF s.analysis_performed /\ s.ticker # ""
    THEN Some([ticker |-> s.ticker, results |-> SavedResults(s)])
    ELSE None

\* main.py:61-63, the display of what perform_stock_news_analysis returned
ResultDisplay(t, ret) ==
    IF Len(ret) > 0 THEN Some([ticker |-> t, results |-> ret]) ELSE None

\* A script run with no button pressed (a widget changed).
Rerun(input, n) ==
    /\ pc = "idle"
    /\ LET t == Upper(input)
           s2 == AfterInputs(ss, t, n)
       IN  /\ ss' = s2
           /\ run' = [NewRun("input", t) EXCEPT !.shown = SavedDisplay(s2)]
    /\ UNCHANGED <<pc, locals, prev, computed_for, cleared>>

\* A script run with "Clear Saved Results" pressed; st.rerun() then runs the
\* script again with the ticker box at its value, the cleared ticker.
ClickClear(input, n) ==
    /\ pc = "idle"
    /\ LET t == Upper(input)
       IN  /\ ss' = ClearSavedResults(AfterInputs(ss, t, n))
           /\ run' = NewRun("clear", t)
    /\ prev' = None
    /\ computed_for' = ""
    /\ cleared' = Some(IF ss.analysis_performed THEN computed_for ELSE "")
    /\ UNCHANGED <<pc, locals>>

\* A script run with "Analyze Stock News" pressed, up to the call of
\* perform_stock_news_analysis(ticker).
ClickAnalyze(input, n) ==
    /\ pc = "idle"
    /\ LET t == Upper(input)
       IN  /\ ss' = AfterInputs(ss, t, n)
           /\ run' = NewRun("analyze", t)
    /\ pc' = "perform"
    /\ UNCHANGED <<locals, prev, computed_for, cleared>>

\* The ticker t, when this request comes first after a Clear that removed
\* results of t
ClearedBefore(t) == IF cleared = Some(t) THEN cleared ELSE None

CallRecord(r) ==
    Some([ticker |-> r.ticker, queries |-> r.queries, fresh |-> r.fresh,
          returned |-> r.returned, ret |-> r.ret])

\* An empty request that resets the saved ticker and flag.
PerformEmpty_WritesTicker ==
    /\ pc = "perform"
    /\ run.ticker = ""
    /\ LET r == [run EXCEPT !.returned = TRUE, !.ret = None, !.after = prev,
                            !.fresh = ~ss.analysis_performed,
                            !.notices = @ \cup {"enter_ticker"}]
       IN  /\ run' = r
           /\ prev' = CallRecord(r)
    /\ pc' = "idle"
    /\ ss' = [ss EXCEPT !.ticker = "", !.analysis_performed = FALSE]
    /\ UNCHANGED <<locals, computed_for, cleared>>

\* data.py:180-182
PerformEmpty ==
    /\ pc = "perform"
    /\ run.ticker = ""
    /\ LET r == [run EXCEPT !.returned = TRUE, !.ret = None, !.after = prev,
                            !.fresh = ~ss.analysis_performed,
                            !.notices = @ \cup {"enter_ticker"}]
       IN  /\ run' = r
           /\ prev' = CallRecord(r)
    /\ pc' = "idle"
    /\ UNCHANGED <<ss, locals, computed_for, cleared>>

\* data.py:185-193, then main.py:61-63
PerformHit ==
    /\ pc = "perform"
    /\ run.ticker # ""
    /\ CacheHit(ss, run.ticker)
    /\ LET ret == SavedResults(ss)
           r == [run EXCEPT !.returned = TRUE, !.ret = ret, !.hit = TRUE,
                            !.after = prev,
                            !.fresh = ~ss.analysis_performed,
                            !.shown = ResultDisplay(run.ticker, ret)]
       IN  /\ run' = r
           /\ prev' = CallRecord(r)
    /\ pc' = "idle"
    /\ cleared' = None
    /\ UNCHANGED <<ss, locals, computed_for>>

\* data.py:194-202, up to the call of get_stock_news
\* A miss that sets the "performed" flag before the analysis has run.
PerformMiss_FlagFirst ==
    /\ pc = "perform"
    /\ run.ticker # ""
    /\ ~CacheHit(ss, run.ticker)
    /\ run' = [run EXCEPT !.after = prev, !.before = Some(ResultFields(ss)),
                          !.fresh = ~ss.analysis_performed,
                          !.count = ss.num_articles]
    /\ ss' = [ss EXCEPT !.analysis_performed = TRUE]
    /\ pc' = "news"
    /\ cleared' = ClearedBefore(run.ticker)
    /\ UNCHANGED <<locals, prev, computed_for>>

PerformMiss ==
    /\ pc = "perform"
    /\ run.ticker # ""
    /\ ~CacheHit(ss, run.ticker)
    /\ run' = [run EXCEPT !.after = prev, !.before = Some(ResultFields(ss)),
                          !.fresh = ~ss.analysis_performed,
                          !.count = ss.num_articles]
    /\ pc' = "news"
    /\ cleared' = ClearedBefore(run.ticker)
    /\ UNCHANGED <<ss, locals, prev, computed_for>>

\* data.py:204-218 and main.py:61-63: the results are saved, returned (None
\* when there is no news) and displayed.
Completed(r, res) ==
    LET ret == PerformReturn(res)
    IN  [r EXCEPT !.analysis = Some(res), !.returned = TRUE, !.ret = ret,
                  !.before = None,
                  !.notices = IF Len(res[4]) = 0 THEN @ \cup {"no_news"} ELSE @,
                  !.shown = ResultDisplay(r.ticker, ret)]

\* An exception that leaves the script: the run ends where it is.
Crashed(r) == [r EXCEPT !.crashed = TRUE]

\* data.py:113-120: the news query, and the whole rest of the call when it
\* yields no headline.
GetNews(provider) ==
    /\ pc = "news"
    /\ LET q == get_stock_news(provider, run.count)
           r == [run EXCEPT !.queries = @ + 1, !.provider = Some(provider),
                            !.news = q.ret,
                            !.notices = IF q.error THEN @ \cup {"news_error"} ELSE @]
       IN  IF q.raised
           THEN /\ run' = Crashed(r)
                /\ prev' = CallRecord(r)
                /\ pc' = "idle"
                /\ cleared' = None
                /\ UNCHANGED <<ss, locals, computed_for>>
           ELSE IF Len(q.ret) = 0
           THEN /\ run' = Completed(r, NoHeadlinesResult)
                /\ ss' = SaveResults(ss, run.ticker, NoHeadlinesResult)
                /\ computed_for' = run.ticker
                /\ prev' = CallRecord(Completed(r, NoHeadlinesResult))
                /\ pc' = "idle"
                /\ cleared' = None
                /\ UNCHANGED locals
           ELSE /\ run' = r
                /\ news_articles' = q.ret
                /\ i' = 0
                /\ results' = <<>>
                /\ all_article_texts' = <<>>
                /\ pc' = "loop"
                /\ UNCHANGED <<ss, prev, computed_for, cleared>>

\* results.append(article_data) put at the wrong end.
AppendResult_AtFront(res, article_data) == <<article_data>> \o res

\* An iteration that goes on to the next article without appending.
AppendResult_NotYet(res, article_data) == res

\* data.py:128
AppendResult(res, article_data) == Append(res, article_data)

\* A progress value computed from the loop index as it is (i / n).
ProgressUpdate_ZeroBased(index, total, res, started) ==
    [value |-> <<index, total>>, records |-> Len(res), started |-> started]

\* data.py:135, progress_bar.progress((i + 1) / len(news_articles)): the
\* fraction shown, with the number of records appended and of articles
\* started at the moment of the update
ProgressUpdate(index, total, res, started) ==
    [value |-> <<index + 1, total>>, records |-> Len(res), started |-> started]

\* data.py:126-135, one iteration of the article loop
LoopStep(fetch) ==
    /\ pc = "loop"
    /\ i < Len(news_articles)
    /\ LET article == news_articles[i + 1]
           out == process_article(article, fetch)
           seen == IF out.called THEN fetch ELSE Failure("none")
           r == [run EXCEPT !.calls = @ + 1,
                            !.fetches = IF out.called THEN @ + 1 ELSE @,
                            !.sleeps = IF out.slept THEN @ + 1 ELSE @,
                            !.extracted = Append(@, Len(out.extracted) > 0),
                            !.last = Some([article |-> article, fetch |-> seen,
                                           out |-> out]),
                            !.notices = IF out.warning
                                        THEN @ \cup {"extract_warning"} ELSE @]
       IN  IF out.raised
           THEN /\ run' = Crashed(r)
                /\ prev' = CallRecord(r)
                /\ pc' = "idle"
                /\ news_articles' = <<>>
                /\ i' = 0
                /\ results' = <<>>
                /\ all_article_texts' = <<>>
                /\ cleared' = None
                /\ UNCHANGED <<ss, computed_for>>
           ELSE /\ results' = AppendResult(results, out.data)
                /\ all_article_texts' =
                       IF Len(out.data.raw_text) > 0
                       THEN Append(all_article_texts, out.data.raw_text)
                       ELSE all_article_texts
                /\ run' = [r EXCEPT !.progress =
                               Append(@, ProgressUpdate(i, Len(news_articles),
                                                        results', r.calls))]
                /\ i' = i + 1
                /\ UNCHANGED <<ss, pc, news_articles, prev, computed_for, cleared>>

\* data.py:137-167, then data.py:204-218 and main.py:61-63
Finish ==
    /\ pc = "loop"
    /\ i = Len(news_articles)
    /\ LET res == AnalysisResult(results, all_article_texts)
       IN  /\ run' = Completed(run, res)
           /\ ss' = SaveResults(ss, run.ticker, res)
           /\ prev' = CallRecord(Completed(run, res))
    /\ computed_for' = run.ticker
    /\ pc' = "idle"
    /\ news_articles' = <<>>
    /\ i' = 0
    /\ results' = <<>>
    /\ all_article_texts' = <<>>
    /\ cleared' = None

\* The script is stopped between two iterations of the article loop (the
\* user acts on a widget while the analysis runs): nothing after the loop,
\* data.py:137-218, is executed.
Abort ==
    /\ pc = "loop"
    /\ run' = [NewRun("aborted", run.ticker) EXCEPT !.before = run.before,
                                                    !.stopped_after = Some(i)]
    /\ pc' = "idle"
    /\ news_articles' = <<>>
    /\ i' = 0
    /\ results' = <<>>
    /\ all_article_texts' = <<>>
    /\ cleared' = None
    /\ UNCHANGED <<ss, prev, computed_for>>

Next ==
    \/ \E input \in TickerInputs, n \in SliderValues : Rerun(input, n)
    \/ \E input \in TickerInputs, n \in SliderValues : ClickClear(input, n)
    \/ \E input \in TickerInputs, n \in SliderValues : ClickAnalyze(input, n)
    \/ PerformEmpty
    \/ PerformHit
    \/ PerformMiss
    \/ \E provider \in ProviderAnswers : GetNews(provider)
    \/ \E fetch \in FetchOutcomes : LoopStep(fetch)
    \/ Finish
    \/ Abort

Spec == Init /\ [][Next]_vars

\* ------------------------------------------- analyze_sentiment on its own
\* The argument of a call: a string, or None.
TextArg(text) == [null |-> FALSE, text |-> text]
NoneArg == [null |-> TRUE, text |-> EmptyText]

\* src/app/sentiment.py:20-35: TextBlob(text) raises TypeError when text is
\* not a string; "" is a string, with polarity and subjectivity 0.
analyze_sentiment_app(arg) ==
    IF arg.null THEN [raised |-> TRUE, ret |-> <<>>]
    ELSE [raised |-> FALSE, ret |-> analyze_sentiment(arg.text)]

\* src/sentiment_app.py:71-91: "if not text" answers for None and for "".
analyze_sentiment_single_file(arg) ==
    IF arg.null \/ arg.text = EmptyText
    THEN [raised |-> FALSE, ret |-> <<0, 0, "Neutral", "neutral">>]
    ELSE [raised |-> FALSE, ret |-> analyze_sentiment(arg.text)]

Vocabulary == {"great", "full", "fine", "bad", "weak", "growth"}
ScorerArgs == {NoneArg} \cup {TextArg(t) : t \in SeqsUpTo(Vocabulary, MaxWords)}

\* A call of analyze_sentiment with any argument, outside a session.
ScorerInit ==
    /\ ss = InitialSessionState
    /\ pc = "score"
    /\ news_articles = <<>> /\ i = 0 /\ results = <<>> /\ all_article_texts = <<>>
    /\ prev = None /\ computed_for = "" /\ cleared = None
    /\ \E arg \in ScorerArgs :
           run = [kind |-> "score", arg |-> arg, variant |-> "", out |-> None]

ScoreApp ==
    /\ pc = "score"
    /\ run' = [run EXCEPT !.variant = "app", !.out = Some(analyze_sentiment_app(run.arg))]
    /\ pc' = "scored"
    /\ UNCHANGED <<ss, locals, prev, computed_for, cleared>>

ScoreSingleFile ==
    /\ pc = "score"
    /\ run' = [run EXCEPT !.variant = "single_file",
                          !.out = Some(analyze_sentiment_single_file(run.arg))]
    /\ pc' = "scored"
    /\ UNCHANGED <<ss, locals, prev, computed_for, cleared>>

ScorerNext == ScoreApp \/ ScoreSingleFile

ScorerSpec == ScorerInit /\ [][ScorerNext]_vars

\* --------------------------------- the preview of process_article alone
\* A text of n characters.
Chars(n) == [k \in 1..n |-> "x"]

\* Lengths of article text up to a few characters past the preview's slice.
TextLengths == 0..(PreviewLen + MaxOver)

\* The article_text entry made for an article_full_text of n characters.
PreviewInit ==
    /\ ss = InitialSessionState
    /\ pc = "process"
    /\ news_articles = <<>> /\ i = 0 /\ results = <<>> /\ all_article_texts = <<>>
    /\ prev = None /\ computed_for = "" /\ cleared = None
    /\ \E n \in TextLengths :
           run = [kind |-> "process", article_full_text |-> Chars(n), out |-> None]

MakePreview ==
    /\ pc = "process"
    /\ run' = [run EXCEPT !.out = Some([article_text |-> Preview(run.article_full_text),
                                       raw_text |-> run.article_full_text])]
    /\ pc' = "processed"
    /\ UNCHANGED <<ss, locals, prev, computed_for, cleared>>

PreviewNext == MakePreview

PreviewSpec == PreviewInit /\ [][PreviewNext]_vars

\* ------------------- the single-file variant (stock_sentiment_app copy.py)
\* " ".join(texts) with its separators: a text is a sequence of words, the
\* separator put between two texts is the token " ".
RECURSIVE SpaceJoin(_)
SpaceJoin(texts) ==
    IF texts = <<>> THEN EmptyText
    ELSE IF Len(texts) = 1 THEN Head(texts)
    ELSE Head(texts) \o <<" ">> \o SpaceJoin(Tail(texts))

\* stock_sentiment_app copy.py:201 and 263
FailureSentinelArchive == <<"Could", "not", "extract", "full", "article", "text.">>

\* stock_sentiment_app copy.py:158-231, process_single_article: the sentinel is
\* stored only inside "if article_url:"; without a link raw_text stays "".
process_single_article(article, fetch) ==
    LET article_url == article.link
        title == article.title
        summary == article.summary
        headline_text == IF Len(summary) > 0 THEN title \o summary ELSE title
        headline == analyze_sentiment(headline_text)
        ext == IF article_url # "" THEN extract_article_text_archive(fetch).ret
               ELSE EmptyText
        full == IF Len(ext) > 0 THEN analyze_sentiment(ext) ELSE headline
        article_full_text ==
            IF article_url # ""
            THEN (IF Len(ext) > 0 THEN ext ELSE FailureSentinelArchive)
            ELSE EmptyText
    IN  [title |-> title, link |-> article_url,
         headline_polarity |-> headline[1],
         headline_subjectivity |-> headline[2],
         full_text_polarity |-> full[1],
         full_text_subjectivity |-> full[2],
         extracted |-> Len(ext) > 0,
         raw_text |-> article_full_text]

\* stock_sentiment_app copy.py:234-276
calculate_overall_and_combined_sentiment(results_df) ==
    IF Len(results_df) = 0 THEN <<0, 0, "Neutral", None>>
    ELSE LET avg_polarity ==
                 Mean([k \in 1..Len(results_df) |-> results_df[k].full_text_polarity])
             avg_subjectivity ==
                 Mean([k \in 1..Len(results_df) |-> results_df[k].full_text_subjectivity])
             valid_rows ==
                 SelectSeq(results_df, LAMBDA d : d.raw_text # FailureSentinelArchive)
             valid_texts == [k \in 1..Len(valid_rows) |-> valid_rows[k].raw_text]
             combined_text == SpaceJoin(valid_texts)
             combined ==
                 IF Len(combined_text) > 0
                 THEN LET c == analyze_sentiment(combined_text)
                      IN  Some([polarity |-> c[1], subjectivity |-> c[2],
                                sentiment |-> c[3], emoji |-> c[4]])
                 ELSE None
         IN  <<avg_polarity, avg_subjectivity, OverallLabel(avg_polarity), combined>>

\* run_analysis once get_stock_news has returned a list that is not empty
\* (stock_sentiment_app copy.py:462-467): the headlines are processed, then
\* aggregated.
ArchiveInit ==
    /\ ss = InitialSessionState
    /\ pc = "archive_loop"
    /\ news_articles \in SeqsUpTo(Headlines, MaxNews) \ {<<>>}
    /\ i = 0 /\ results = <<>> /\ all_article_texts = <<>>
    /\ prev = None /\ computed_for = "" /\ cleared = None
    /\ run = [kind |-> "archive", fetched |-> <<>>, out |-> None]

ArchiveProcess(fetch) ==
    /\ pc = "archive_loop"
    /\ i < Len(news_articles)
    /\ results' = Append(results, process_single_article(news_articles[i + 1], fetch))
    /\ i' = i + 1
    /\ run' = [run EXCEPT !.fetched =
                   Append(@, IF news_articles[i + 1].link # "" THEN fetch
                             ELSE Failure("none"))]
    /\ UNCHANGED <<ss, pc, news_articles, all_article_texts, prev,
                   computed_for, cleared>>

ArchiveAggregate ==
    /\ pc = "archive_loop"
    /\ i = Len(news_articles)
    /\ run' = [run EXCEPT !.out = Some(calculate_overall_and_combined_sentiment(results))]
    /\ pc' = "archive_done"
    /\ UNCHANGED <<ss, locals, prev, computed_for, cleared>>

ArchiveNext ==
    \/ \E fetch \in FetchOutcomes : ArchiveProcess(fetch)
    \/ ArchiveAggregate

ArchiveSpec == ArchiveInit /\ [][ArchiveNext]_vars

\* ------------------------------------------------------------- the claims
\* The result analyze_stock_news_sentiment returned in this run, if it did.
Returned == run.analysis # None
Result == run.analysis[1]
LastCall == run.last[1]

\* C1: of two successive perform_stock_news_analysis calls for the same
\* non-empty ticker with no Clear between them, the second is served from the
\* session state: it returns the saved results, queries no news, processes and
\* fetches no article and leaves every session field as it was; when the first
\* call found no saved results, the two calls query the news source exactly
\* once.
C1_SecondCallServedFromSession ==
    [][(pc = "perform" /\ run.ticker # "" /\ prev # None
            /\ prev[1].ticker = run.ticker)
        => /\ pc' = "idle"
           /\ run'.returned /\ run'.hit
           /\ run'.ret = SavedResults(ss)
           /\ run'.queries = 0 /\ run'.calls = 0 /\ run'.fetches = 0
           /\ ss' = ss
           /\ (prev[1].fresh => prev[1].queries + run'.queries = 1)]_vars

C1_Witness ==
    /\ pc = "idle" /\ run.kind = "analyze" /\ run.ticker # ""
    /\ run.after # None /\ run.after[1].ticker = run.ticker
    /\ run.after[1].fresh /\ run.after[1].queries = 1
    /\ run.hit /\ run.queries = 0
    /\ Len(ss.news_df) > 0

\* C2: a request for a non-empty ticker that differs from the ticker whose
\* results are saved is not served from the session state: whatever a call
\* returns from the cache was computed for the requested ticker.
C2_OtherTickerMisses ==
    (run.kind = "analyze" /\ run.ticker # "" /\ run.hit)
        => computed_for = run.ticker

\* C3: the combined sentiment of a result is None exactly when no article of
\* the run had a non-empty text extracted.
C3_CombinedAbsentIffNothingExtracted ==
    Returned =>
        ((Result[5] = None)
            <=> (\A k \in 1..Len(run.extracted) : ~run.extracted[k]))

\* C4: when the news query yields no headline, the analysis is over at once
\* with averages 0.0, the label Neutral, no article and no combined sentiment;
\* no article was processed or fetched and no progress was reported.
C4_NoHeadlinesNeutral ==
    (run.queries = 1 /\ run.news = <<>> /\ ~run.crashed)
        => /\ pc = "idle"
           /\ run.analysis = Some(<<0, 0, "Neutral", <<>>, None>>)
           /\ run.calls = 0 /\ run.fetches = 0 /\ run.last = None
           /\ run.progress = <<>>

C4_Witness ==
    /\ run.queries = 1 /\ run.provider # None /\ ~run.provider[1].error
    /\ run.news = <<>> /\ Returned

\* C5: a record made by process_article from an empty extraction carries the
\* headline's polarity, subjectivity and label as its full-text sentiment and
\* the failure sentinel as its text; a record made from a non-empty extraction
\* carries the score of the extracted text.
C5_FallbackToHeadline ==
    run.last # None =>
        LET a == LastCall.article
            out == LastCall.out
            d == out.data
            h == Join(<<a.title, a.summary>>)
        IN  /\ d.headline_polarity = TextBlobPolarity(h)
            /\ d.headline_subjectivity = TextBlobSubjectivity(h)
            /\ d.headline_sentiment = SentimentLabel(TextBlobPolarity(h))
            /\ IF out.extracted = EmptyText
               THEN /\ d.full_text_polarity = d.headline_polarity
                    /\ d.full_text_subjectivity = d.headline_subjectivity
                    /\ d.full_text_sentiment = d.headline_sentiment
                    /\ d.raw_text = FailureSentinel
                    /\ d.article_text = FailureSentinel
               ELSE /\ d.full_text_polarity = TextBlobPolarity(out.extracted)
                    /\ d.full_text_subjectivity = TextBlobSubjectivity(out.extracted)
                    /\ d.full_text_sentiment
                           = SentimentLabel(TextBlobPolarity(out.extracted))
                    /\ d.raw_text = out.extracted
            /\ (pc = "loop" => d \in {results[k] : k \in 1..Len(results)})

C5_Witness ==
    /\ run.last # None /\ pc = "loop"
    /\ LastCall.out.called /\ LastCall.out.extracted = EmptyText
    /\ LastCall.out.data.headline_polarity # 0
    /\ LastCall.out.data.full_text_sentiment = "Negative"

\* C6: the result of an analysis over a non-empty headline list has one
\* record per headline that get_stock_news returned, record k being the record
\* of headline k; while the loop runs, the records made so far are those of
\* the first i headlines, in order.
RecordOf(d, h) ==
    /\ d.title = h.title /\ d.link = h.link
    /\ d.publisher = h.publisher /\ d.published = h.providerPublishTime

C6_OneRecordPerHeadline ==
    /\ (Returned /\ Len(run.news) > 0)
           => /\ Len(Result[4]) = Len(run.news)
              /\ \A k \in 1..Len(run.news) : RecordOf(Result[4][k], run.news[k])
              /\ ss.news_df = Result[4]
    /\ pc = "loop"
           => /\ Len(results) = i
              /\ \A k \in 1..Len(results) : RecordOf(results[k], news_articles[k])

C6_Witness ==
    /\ Returned /\ Len(run.news) = 2 /\ run.news[1] # run.news[2]
    /\ Len(ss.news_df) = 2

BadFetch(f) == f.kind # "response" \/ f.status # HTTP_OK \/ f.malformed

\* C7: extract_article_text raises nothing: after a timeout, a connection
\* failure, a status other than 200 or a parse failure it has returned the
\* empty string (in the single-file variant of the archive as well).
C7_ExtractNeverRaises ==
    /\ ~run.crashed
    /\ (run.last # None /\ LastCall.out.called)
           => /\ ~LastCall.out.raised
              /\ BadFetch(LastCall.fetch) => LastCall.out.extracted = EmptyText
    /\ \A f \in FetchOutcomes :
           /\ ~extract_article_text_archive(f).raised
           /\ BadFetch(f) => extract_article_text_archive(f).ret = EmptyText

C7_Witness ==
    /\ run.last # None /\ pc = "loop"
    /\ LastCall.out.called
    /\ LastCall.fetch.kind = "response" /\ LastCall.fetch.status = 500
    /\ LastCall.out.extracted = EmptyText

\* C8: get_stock_news returns at most num_articles headlines, and they are
\* the first headlines of the provider's answer, in the provider's order.
C8_AtMostCountPrefix ==
    (run.provider # None /\ ~run.crashed) =>
        LET news == run.provider[1].news
        IN  /\ run.count >= 1
            /\ Len(run.news) <= run.count
            /\ Len(run.news) <= Len(news)
            /\ \A k \in 1..Len(run.news) : run.news[k] = news[k]

C8_Witness ==
    /\ run.provider # None
    /\ Len(run.provider[1].news) > run.count
    /\ Len(run.news) = run.count

\* C9: when the news query raises, get_stock_news returns the empty list and
\* reports the error; nothing propagates, and the analysis ends with the
\* empty neutral result.
C9_ProviderErrorFailsSoft ==
    (run.provider # None /\ run.provider[1].error)
        => /\ ~run.crashed
           /\ run.news = <<>>
           /\ "news_error" \in run.notices
           /\ pc = "idle" /\ run.returned
           /\ run.analysis = Some(<<0, 0, "Neutral", <<>>, None>>)

C9_Witness ==
    /\ run.provider # None /\ run.provider[1].error
    /\ run.returned /\ run.ret = None

\* C10: after Clear Saved Results every field of the saved result is back at
\* its initial default.
C10_ClearResetsEveryField ==
    run.kind = "clear"
        => /\ ss.analysis_performed = FALSE
           /\ ss.ticker = ""
           /\ ss.avg_polarity = 0
           /\ ss.avg_subjectivity = 0
           /\ ss.overall_sentiment = "Neutral"
           /\ ss.news_df = <<>>
           /\ ss.combined_sentiment = None

\* C11: the first analysis request for a ticker after Clear Saved Results,
\* whatever the ticker, is not served from the session state: it goes on to
\* query the news source, and what it returns comes from the analysis it ran.
C11_RecomputesAfterClear ==
    [][/\ (pc = "perform" /\ run.ticker # "" /\ cleared # None)
            => (pc' = "news" /\ ~run'.hit /\ ~run'.returned /\ run'.queries = 0)
       /\ (run'.kind = "analyze" /\ run'.ticker # "" /\ run'.returned /\ ~run'.hit)
            => /\ run'.queries = 1 /\ run'.analysis # None
               /\ run'.ret = PerformReturn(run'.analysis[1])
               /\ ss'.analysis_performed /\ ss'.ticker = run'.ticker
               /\ SavedResults(ss') = run'.analysis[1]]_vars

C11_Witness ==
    /\ pc = "loop" /\ run.kind = "analyze" /\ run.ticker # ""
    /\ cleared = Some(run.ticker)
    /\ ~run.hit /\ run.queries = 1
    /\ i = Len(news_articles) /\ i > 0

\* C12: an article whose text could not be extracted does not end the batch:
\* the loop goes on with the next headline, and the finished analysis has one
\* record per headline, the failed ones and all those after them included.
C12_FailedExtractionDoesNotAbort ==
    /\ ~run.crashed
    /\ pc = "loop"
           => /\ run.calls = i /\ Len(results) = i /\ Len(run.extracted) = i
              /\ \A k \in 1..i : results[k].title = news_articles[k].title
    /\ (Returned /\ Len(run.news) > 0)
           => /\ run.calls = Len(run.news)
              /\ Len(run.extracted) = Len(run.news)
              /\ Len(Result[4]) = Len(run.news)
              /\ \A k \in 1..Len(run.news) :
                     ~run.extracted[k]
                         => \A j \in k..Len(run.news) :
                                Result[4][j].title = run.news[j].title

C12_Witness ==
    /\ Returned /\ Len(run.news) = 2 /\ run.fetches = 2
    /\ ~run.extracted[1] /\ run.extracted[2]
    /\ "extract_warning" \in run.notices
    /\ Len(Result[4]) = 2

\* The label that goes with a polarity: Positive above 0.1, Negative below
\* -0.1, Neutral from -0.1 to 0.1, both ends included.
Labelled(polarity, label) ==
    /\ label \in {"Positive", "Negative", "Neutral"}
    /\ label = "Positive" <=> polarity > Scale \div 10
    /\ label = "Negative" <=> polarity < -(Scale \div 10)
    /\ label = "Neutral" <=> (polarity >= -(Scale \div 10) /\ polarity <= Scale \div 10)

RecordLabelled(d) ==
    /\ Labelled(d.headline_polarity, d.headline_sentiment)
    /\ Labelled(d.full_text_polarity, d.full_text_sentiment)

\* C13: every label analyze_sentiment gave (headline, full text, combined
\* corpus) is the one its polarity determines, with strict thresholds: a
\* polarity of exactly 0.1 or exactly -0.1 is Neutral.
C13_LabelFromPolarityStrict ==
    /\ \A k \in 1..Len(results) : RecordLabelled(results[k])
    /\ \A k \in 1..Len(ss.news_df) : RecordLabelled(ss.news_df[k])
    /\ ss.combined_sentiment # None
           => Labelled(ss.combined_sentiment[1].polarity,
                       ss.combined_sentiment[1].sentiment)

C13_Witness ==
    /\ \E k \in 1..Len(ss.news_df) :
           /\ ss.news_df[k].headline_polarity = Threshold
           /\ ss.news_df[k].headline_sentiment = "Neutral"
    /\ \E k \in 1..Len(ss.news_df) :
           /\ ss.news_df[k].full_text_polarity = -Threshold
           /\ ss.news_df[k].full_text_sentiment = "Neutral"
    /\ \E k \in 1..Len(ss.news_df) : ss.news_df[k].headline_sentiment = "Negative"

\* C14: the overall label is the one the average polarity determines, with
\* the strict thresholds of the article labels; the overall_sentiment held in
\* the session always agrees with the avg_polarity held next to it.
C14_OverallLabelAgreesWithAverage ==
    /\ Labelled(ss.avg_polarity, ss.overall_sentiment)
    /\ Returned => Labelled(Result[1], Result[3])
    /\ (run.returned /\ Len(run.ret) > 0) => Labelled(run.ret[1], run.ret[3])

C14_Witness ==
    /\ ss.analysis_performed /\ Len(ss.news_df) = 2
    /\ ss.news_df[1].full_text_polarity # ss.news_df[2].full_text_polarity
    /\ ss.avg_polarity = Threshold
    /\ ss.overall_sentiment = "Neutral"

\* The sum of the full-text polarity (subjectivity) of the first n records.
RECURSIVE TotalPolarity(_, _)
TotalPolarity(df, n) ==
    IF n = 0 THEN 0 ELSE df[n].full_text_polarity + TotalPolarity(df, n - 1)

RECURSIVE TotalSubjectivity(_, _)
TotalSubjectivity(df, n) ==
    IF n = 0 THEN 0 ELSE df[n].full_text_subjectivity + TotalSubjectivity(df, n - 1)

\* C15: avg_polarity and avg_subjectivity are the arithmetic means of the
\* full-text polarity and subjectivity over all the records; a record whose
\* extraction failed counts with the sentiment of its headline.
C15_AveragesOverAllRecords ==
    (Returned /\ Len(run.news) > 0) =>
        LET df == Result[4]
            n == Len(df)
        IN  /\ n = Len(run.news)
            /\ Result[1] * n = TotalPolarity(df, n)
            /\ Result[2] * n = TotalSubjectivity(df, n)
            /\ \A k \in 1..n :
                   ~run.extracted[k] =>
                       LET text == Join(<<run.news[k].title, run.news[k].summary>>)
                       IN  /\ df[k].full_text_polarity = TextBlobPolarity(text)
                           /\ df[k].full_text_subjectivity = TextBlobSubjectivity(text)

C15_Witness ==
    /\ Returned /\ Len(run.news) = 2
    /\ run.extracted = <<TRUE, FALSE>>
    /\ Result[4][2].full_text_polarity # 0
    /\ Result[4][1].full_text_polarity # Result[4][2].full_text_polarity
    /\ Result[4][1].full_text_subjectivity # Result[4][2].full_text_subjectivity
    /\ Result[1] * 2 = Result[4][1].full_text_polarity + Result[4][2].full_text_polarity

\* C16: an analysis of n > 0 headlines makes exactly n progress updates; the
\* k-th has the value k/n and is made when k records are appended and article
\* k+1 is not started; the values increase strictly and the last is 1; the
\* records and the result are those of the headlines, whatever was shown.
C16_ProgressPerArticle ==
    /\ pc = "loop"
           => /\ Len(run.progress) = i
              /\ Len(run.progress) = Len(results)
    /\ \A k \in 1..Len(run.progress) :
           /\ run.progress[k].value = <<k, Len(run.news)>>
           /\ run.progress[k].records = k
           /\ run.progress[k].started = k
           /\ k > 1 => run.progress[k - 1].value[1] * run.progress[k].value[2]
                           < run.progress[k].value[1] * run.progress[k - 1].value[2]
    /\ (Returned /\ Len(run.news) > 0)
           => /\ Len(run.progress) = Len(run.news)
              /\ LET last == run.progress[Len(run.progress)].value
                 IN  last[1] = last[2]
              /\ Len(Result[4]) = Len(run.news)
              /\ \A k \in 1..Len(run.news) : Result[4][k].title = run.news[k].title
    /\ (Returned /\ Len(run.news) = 0) => run.progress = <<>>

C16_Witness ==
    /\ Returned /\ Len(run.news) = 2
    /\ Len(run.progress) = 2
    /\ run.progress[1].value = <<1, 2>> /\ run.progress[2].value = <<2, 2>>

\* C17: articles are processed one after the other: between two steps no
\* article is in progress, every article started has its record appended
\* before the next one starts, the articles start in headline order, and no
\* article is processed or fetched before the news query has completed.
C17_StrictlySequential ==
    /\ run.queries <= 1
    /\ pc \in {"perform", "news"}
           => run.queries = 0 /\ run.calls = 0 /\ run.fetches = 0
    /\ run.calls > 0 => (run.queries = 1 /\ run.provider # None)
    /\ run.fetches <= run.calls
    /\ pc = "loop"
           => /\ news_articles = run.news
              /\ run.calls = i
              /\ Len(results) = run.calls
              /\ run.calls <= Len(run.news)
    /\ (run.last # None /\ ~run.crashed)
           => /\ run.calls \in 1..Len(run.news)
              /\ LastCall.article = run.news[run.calls]
              /\ pc = "loop" => results[run.calls].title = LastCall.article.title

C17_Witness ==
    /\ pc = "loop" /\ Len(run.news) = 2
    /\ run.queries = 1 /\ run.calls = 1 /\ run.fetches = 1
    /\ Len(results) = 1 /\ i = 1

\* C18: analyze_sentiment answers (0.0, 0.0, Neutral) for the empty text and
\* for None, and raises nothing.
C18_EmptyOrNoneIsNeutral ==
    (run.out # None /\ (run.arg.null \/ run.arg.text = EmptyText))
        => /\ ~run.out[1].raised
           /\ Len(run.out[1].ret) = 4
           /\ run.out[1].ret[1] = 0 /\ run.out[1].ret[2] = 0
           /\ run.out[1].ret[3] = "Neutral"

\* The raw text of the first n records whose extraction succeeded, in order.
RECURSIVE ExtractedTexts(_, _, _)
ExtractedTexts(res, ok, n) ==
    IF n = 0 THEN <<>>
    ELSE IF ok[n] THEN Append(ExtractedTexts(res, ok, n - 1), res[n].raw_text)
         ELSE ExtractedTexts(res, ok, n - 1)

\* C19: the corpus collected for the combined sentiment is, in order, the
\* extracted text of exactly the records whose extraction succeeded; the
\* failure sentinel is never in it.
C19_CorpusOfExtractedTextsOnly ==
    pc = "loop"
        => /\ all_article_texts = ExtractedTexts(results, run.extracted, Len(results))
           /\ \A k \in 1..Len(all_article_texts) :
                  all_article_texts[k] # FailureSentinel

\* C20: a request served from the session state gives the caller what the
\* request before it for the same ticker gave: the value returned is the
\* same, and when that was "no articles found" (None) it is so again.
C20_HitReturnsWhatMissReturned ==
    (run.kind = "analyze" /\ run.returned /\ run.hit /\ run.after # None
        /\ run.after[1].ticker = run.ticker /\ run.after[1].returned)
        => /\ run.ret = run.after[1].ret
           /\ run.after[1].ret = None => "no_news" \in run.notices

\* C21: the preview stored in an article record is at most 500 characters
\* long, whatever the length of the extracted text.
C21_PreviewAtMost500 ==
    run.out # None => Len(run.out[1].article_text) <= 500

\* C22: each extractor call is followed by the delay before process_article
\* returns, so an analysis has taken as many delays as it has made fetches
\* whenever it goes on to the next article; a headline without a link takes
\* no delay.
C22_DelayAfterEveryFetch ==
    /\ run.sleeps = run.fetches
    /\ run.last # None
           => /\ LastCall.out.slept <=> LastCall.out.called
              /\ LastCall.article.link = "" => ~LastCall.out.slept
              /\ LastCall.article.link # "" => LastCall.out.slept

C22_Witness ==
    /\ Returned /\ Len(run.news) = 2
    /\ run.fetches = 2 /\ run.sleeps = 2
    /\ ~run.extracted[1]

\* The number of headlines with a link among the first n.
RECURSIVE LinkedAmong(_, _)
LinkedAmong(news, n) ==
    IF n = 0 THEN 0
    ELSE LinkedAmong(news, n - 1) + (IF news[n].link # "" THEN 1 ELSE 0)

\* C23: an analysis calls the extractor once for each headline with a link it
\* has processed, failed or not, and never for a headline without a link;
\* such a headline gets a record with the headline sentiment and the sentinel
\* text, and no request is made for it.
C23_OneFetchPerLinkedHeadline ==
    /\ run.calls <= Len(run.news)
    /\ ~run.crashed => run.fetches = LinkedAmong(run.news, run.calls)
    /\ run.last # None
           => LET d == LastCall.out.data
              IN  /\ LastCall.out.called <=> LastCall.article.link # ""
                  /\ LastCall.article.link = ""
                         => /\ LastCall.fetch = Failure("none")
                            /\ LastCall.out.extracted = EmptyText
                            /\ ~LastCall.out.warning
                            /\ d.full_text_polarity = d.headline_polarity
                            /\ d.full_text_subjectivity = d.headline_subjectivity
                            /\ d.full_text_sentiment = d.headline_sentiment
                            /\ d.raw_text = FailureSentinel
    /\ Returned => /\ run.calls = Len(run.news)
                   /\ \A k \in 1..Len(run.news) :
                          run.news[k].link = "" => ~run.extracted[k]

C23_Witness ==
    /\ Returned /\ Len(run.news) = 2
    /\ run.news[1].link # "" /\ ~run.extracted[1]
    /\ run.news[2].link = ""
    /\ run.fetches = 1 /\ run.calls = 2

\* A fetch that failed: a timeout, a connection failure, or an answer whose
\* status is not a success.
FailedFetch(f) == f.kind \in {"timeout", "connection"} \/ (f.kind = "response" /\ f.status # 200)

\* C24: every failed article fetch (status other than success, timeout,
\* connection failure) gives a warning for the article as well as the empty
\* text.
C24_FailedFetchWarns ==
    (run.last # None /\ LastCall.out.called /\ FailedFetch(LastCall.fetch))
        => /\ LastCall.out.extracted = EmptyText
           /\ LastCall.out.warning
           /\ "extract_warning" \in run.notices

\* C25: with a result saved for ticker T, a request for T is served from the
\* session state whatever the article count is now: it returns the saved
\* result as it is, queries no news, processes no article and writes nothing.
C25_CacheKeyedByTickerOnly ==
    [][(pc = "perform" /\ run.ticker # "" /\ ss.analysis_performed
            /\ ss.ticker = run.ticker /\ computed_for = run.ticker)
         => /\ pc' = "idle" /\ run'.returned /\ run'.hit
            /\ run'.ret = SavedResults(ss)
            /\ run'.queries = 0 /\ run'.calls = 0 /\ run'.fetches = 0
            /\ ss' = ss]_vars

C25_Witness ==
    /\ pc = "idle" /\ run.kind = "analyze" /\ run.returned /\ run.hit
    /\ computed_for = run.ticker
    /\ Len(run.ret[4]) = 2 /\ ss.num_articles = 1
    /\ run.queries = 0

\* C26: whenever analysis_performed is set, the saved result was computed by
\* an analysis of the ticker held in the session; so the ticker main() shows
\* with saved results is the ticker whose news were analysed.
C26_SavedResultIsOfStoredTicker ==
    /\ ss.analysis_performed => computed_for = ss.ticker
    /\ (run.kind = "input" /\ run.shown # None)
           => run.shown[1].ticker = computed_for

\* C27: the result fields of the session are written only once the analysis
\* has returned: during the news query and the article loop, and after a run
\* stopped between two articles, the averages, the label, the table, the
\* combined sentiment and the "performed" flag are those of before the
\* request; a finished analysis has written them all.
C27_ResultWrittenOnlyAfterAnalysis ==
    /\ pc \in {"news", "loop"}
           => (run.before # None /\ ResultFields(ss) = run.before[1])
    /\ run.kind = "aborted"
           => (run.before # None /\ ResultFields(ss) = run.before[1])
    /\ (run.kind = "analyze" /\ Returned /\ ~run.hit)
           => /\ SavedResults(ss) = Result
              /\ ss.analysis_performed /\ ss.ticker = run.ticker

C27_Witness ==
    /\ run.kind = "aborted" /\ run.stopped_after = Some(1)
    /\ ss.avg_polarity # 0 /\ ss.overall_sentiment # "Neutral"
    /\ ~ss.analysis_performed

\* C28: an analysis that finds no headline (the provider gave none, or
\* failed) still saves its empty result with the "performed" flag set, and the
\* next request for the same ticker is served from the session state without
\* a news query.
C28_EmptyResultIsCached ==
    /\ (run.kind = "analyze" /\ ~run.hit /\ run.queries = 1 /\ run.news = <<>>
            /\ ~run.crashed)
           => /\ pc = "idle" /\ Returned
              /\ ss.analysis_performed /\ ss.ticker = run.ticker
              /\ computed_for = run.ticker
              /\ SavedResults(ss) = <<0, 0, "Neutral", <<>>, None>>
    /\ (run.kind = "analyze" /\ run.ticker # "" /\ run.after # None
            /\ run.after[1].ticker = run.ticker
            /\ run.after[1].returned /\ run.after[1].ret = None)
           => /\ pc = "idle" /\ run.hit /\ run.queries = 0
              /\ run.after[1].queries = 1 => Len(run.ret[4]) = 0

C28_Witness ==
    /\ run.kind = "analyze" /\ run.ticker # "" /\ run.hit /\ run.queries = 0
    /\ run.after # None /\ run.after[1].ticker = run.ticker
    /\ run.after[1].queries = 1 /\ run.after[1].ret = None
    /\ ss.analysis_performed /\ ss.news_df = <<>>

\* C29: a request with an empty ticker returns None with a warning, makes no
\* news query, processes and fetches no article, and leaves every field of
\* the session state as it was.
C29_EmptyTickerIsNoOp ==
    [][(pc = "perform" /\ run.ticker = "")
         => /\ pc' = "idle"
            /\ run'.returned /\ run'.ret = None /\ ~run'.hit
            /\ "enter_ticker" \in run'.notices
            /\ run'.queries = 0 /\ run'.calls = 0 /\ run'.fetches = 0
            /\ run'.analysis = None /\ run'.shown = None
            /\ ss' = ss]_vars

C29_Witness ==
    /\ pc = "idle" /\ run.kind = "analyze" /\ run.ticker = ""
    /\ run.returned /\ run.ret = None /\ "enter_ticker" \in run.notices
    /\ ss.analysis_performed /\ Len(ss.news_df) > 0

\* C30: in the single-file variant the combined sentiment is None whenever
\* no article of the batch had its text extracted, for any number of
\* articles, those without a link included.
C30_ArchiveCombinedNoneWithoutExtraction ==
    (pc = "archive_done" /\ \A k \in 1..Len(results) : ~results[k].extracted)
        => run.out[1][4] = None

====
